---- MODULE Spec2Model ----
(***************************************************************************)
(* A model of the parameter layer of Schelling-Ross (params.py, utils.py): *)
(* the primitive validator check_prob, the dataclasses DiseaseParams,      *)
(* SocialParams, DistSpec, PopulationParams, InitStateParams, SimParams    *)
(* with their validate() methods, and the entry point                      *)
(* SimParams.load_default.                                                 *)
(*                                                                         *)
(* Numbers.  A probability is a rational k/Scale, kept as the integer k:   *)
(* Scale stands for 1.0, 0 for 0.0, and Vals runs from -1/Scale to         *)
(* (Scale+1)/Scale so that both ends of [0,1] are overshot.  Sums are      *)
(* exact; the rounding of IEEE doubles is not modelled.                    *)
(*                                                                         *)
(* Optional values.  Python's None is the empty tuple and a present value  *)
(* v is <<v>>.  A string (a distribution name) is a tuple of one-character *)
(* strings, so that lower() and strip() are computed, not assumed.         *)
(*                                                                         *)
(* Errors.  Every validation failure of the code is a ValueError; the      *)
(* model tells the raise sites apart by "kind" (check_prob's raise is      *)
(* RangeError, the sum checks CrossFieldInvariantError, and so on) and     *)
(* keeps the name the message carries.  TypeError is what a dataclass      *)
(* constructor raises on unexpected or missing keyword arguments,          *)
(* ConfigAttributeError what OmegaConf (2.1 and later) raises on attribute *)
(* access to a missing key, AttributeError what None.validate() raises.    *)
(***************************************************************************)
EXTENDS Integers, Sequences, FiniteSets, TLC

VARIABLES cfg, params, pc, outcome, result, trace

vars == <<cfg, params, pc, outcome, result, trace>>

\* Fixed-point resolution: the integer that stands for 1.0.
Scale == 2

Vals == (0 - 1)..(Scale + 1)

None == <<>>

Some(v) == <<v>>

Ok == [kind |-> "ok", name |-> <<>>]

Err(kind, name) == [kind |-> kind, name |-> name]

IsOk(o) == o.kind = "ok"

(***************************************************************************)
(* utils.py                                                                *)
(***************************************************************************)

\* A mutant of check_prob: the upper end of the interval is left open.
check_prob_open(name, p) ==
    IF ~(0 <= p /\ p < Scale) THEN Err("RangeError", name) ELSE Ok

\* check_prob(name, p): raises iff not (0.0 <= p <= 1.0).
check_prob(name, p) ==
    IF ~(0 <= p /\ p <= Scale) THEN Err("RangeError", name) ELSE Ok

\* A run of check_prob calls over the named fields of obj, in order, stopping
\* at the first raise.  "checks" lists the checks that ran.
RECURSIVE CheckFields(_, _, _)
CheckFields(names, obj, done) ==
    IF names = <<>>
    THEN [out |-> Ok, checks |-> done]
    ELSE LET f == Head(names)
             r == check_prob(<<f>>, obj[f])
         IN  IF ~IsOk(r)
             THEN [out |-> r, checks |-> Append(done, <<f>>)]
             ELSE CheckFields(Tail(names), obj, Append(done, <<f>>))

(***************************************************************************)
(* DiseaseParams                                                           *)
(***************************************************************************)

DiseaseFields == {"alpha", "beta", "p_SI", "p_IH", "p_IR", "p_HR", "p_RS"}

\* The order in which the dataclass declares its fields.
DiseaseDeclared == <<"alpha", "beta", "p_SI", "p_IH", "p_IR", "p_HR", "p_RS">>

\* The order of the tuple validate() iterates over.
DiseaseCheckOrder == <<"p_SI", "p_IH", "p_IR", "p_HR", "p_RS", "alpha", "beta">>

\* A mutant of the sum check: the boundary p_IH + p_IR = 1 is rejected.
DiseaseSumBadStrict(d) == d["p_IH"] + d["p_IR"] >= Scale

\* if self.p_IH + self.p_IR > 1.0
DiseaseSumBad(d) == d["p_IH"] + d["p_IR"] > Scale

DiseaseValidate(d) ==
    LET r == CheckFields(DiseaseCheckOrder, d, <<>>)
        c == Append(r.checks, <<"p_IH+p_IR">>)
    IN  IF ~IsOk(r.out) THEN r
        ELSE IF DiseaseSumBad(d)
             THEN [out |-> Err("CrossFieldInvariantError", <<"p_IH+p_IR">>), checks |-> c]
             ELSE [out |-> Ok, checks |-> c]

(***************************************************************************)
(* SocialParams                                                            *)
(***************************************************************************)

SocialFields == {"p_s"}

SocialValidate(s) == CheckFields(<<"p_s">>, s, <<>>)

(***************************************************************************)
(* DistSpec                                                                *)
(***************************************************************************)

LowerChar(c) ==
    CASE c = "C" -> "c"
      [] c = "O" -> "o"
      [] c = "N" -> "n"
      [] c = "S" -> "s"
      [] c = "T" -> "t"
      [] c = "U" -> "u"
      [] c = "I" -> "i"
      [] c = "F" -> "f"
      [] c = "R" -> "r"
      [] c = "M" -> "m"
      [] OTHER -> c

\* str.lower()
Lower(s) == [i \in 1..Len(s) |-> LowerChar(s[i])]

IsSpace(c) == c \in {" ", "\t", "\n"}

RECURSIVE LStrip(_)
LStrip(s) == IF s # <<>> /\ IsSpace(Head(s)) THEN LStrip(Tail(s)) ELSE s

RECURSIVE RStrip(_)
RStrip(s) ==
    IF s # <<>> /\ IsSpace(s[Len(s)]) THEN RStrip(SubSeq(s, 1, Len(s) - 1)) ELSE s

\* str.strip()
Strip(s) == RStrip(LStrip(s))

\* dist_nm = (self.name or "").lower().strip()
DistName(spec) ==
    LET nm == IF spec["name"] = None THEN <<>> ELSE spec["name"][1]
    IN  Strip(Lower(nm))

StrConst == <<"c", "o", "n", "s", "t">>

StrUniform == <<"u", "n", "i", "f", "o", "r", "m">>

\* A mutant of the ordering check: low == high is rejected.
DistOrderBadStrict(spec) == spec["low"][1] >= spec["high"][1]

\* if self.low > self.high
DistOrderBad(spec) == spec["low"][1] > spec["high"][1]

\* DistSpec.validate(field_name=fn)
DistValidate(spec, fn) ==
    LET nm == DistName(spec) IN
    IF nm = StrConst
    THEN IF spec["value"] = None
         THEN [out |-> Err("MissingFieldError", <<fn, "value">>), checks |-> <<>>]
         ELSE [out |-> check_prob(<<fn, "value">>, spec["value"][1]),
               checks |-> << <<fn, "value">> >>]
    ELSE IF nm = StrUniform
    THEN IF spec["low"] = None \/ spec["high"] = None
         THEN [out |-> Err("MissingFieldError", <<fn, "low", "high">>), checks |-> <<>>]
         ELSE LET rl == check_prob(<<fn, "low">>, spec["low"][1])
                  rh == check_prob(<<fn, "high">>, spec["high"][1])
              IN  IF ~IsOk(rl)
                  THEN [out |-> rl, checks |-> << <<fn, "low">> >>]
                  ELSE IF ~IsOk(rh)
                  THEN [out |-> rh, checks |-> << <<fn, "low">>, <<fn, "high">> >>]
                  ELSE [out |-> IF DistOrderBad(spec)
                                THEN Err("OrderingError", <<fn, "low>high">>)
                                ELSE Ok,
                        checks |-> << <<fn, "low">>, <<fn, "high">>, <<fn, "low>high">> >>]
    ELSE [out |-> Err("UnsupportedVariantError", <<fn, "name">>), checks |-> <<>>]

(***************************************************************************)
(* PopulationParams                                                        *)
(***************************************************************************)

PopulationFields == {"frac_stubborn", "frac_prosocial", "tau", "gamma", "lam"}

\* The DistSpec fields in the order validate() visits them.
PopulationDistOrder == <<"tau", "gamma", "lam">>

RECURSIVE CheckDists(_, _, _)
CheckDists(names, obj, done) ==
    IF names = <<>>
    THEN [out |-> Ok, checks |-> done]
    ELSE LET r == DistValidate(obj[Head(names)], Head(names))
         IN  IF ~IsOk(r.out)
             THEN [out |-> r.out, checks |-> done \o r.checks]
             ELSE CheckDists(Tail(names), obj, done \o r.checks)

PopulationValidate(p) ==
    LET r == CheckFields(<<"frac_stubborn", "frac_prosocial">>, p, <<>>)
    IN  IF ~IsOk(r.out) THEN r ELSE CheckDists(PopulationDistOrder, p, r.checks)

(***************************************************************************)
(* InitStateParams                                                         *)
(***************************************************************************)

InitRequired == {"init_infected_frac", "init_adopted_frac"}

\* init_recovered_frac: float = 0.0, init_hospitalized_frac: float = 0.0
InitDefaults == [init_recovered_frac |-> 0, init_hospitalized_frac |-> 0]

InitCheckOrder ==
    <<"init_infected_frac", "init_adopted_frac", "init_recovered_frac",
      "init_hospitalized_frac">>

\* A mutant of the sum: the adopted fraction is counted as a disease state.
InitTotalWithAdopted(i) ==
    i["init_infected_frac"] + i["init_recovered_frac"]
        + i["init_hospitalized_frac"] + i["init_adopted_frac"]

\* total_disease = infected + recovered + hospitalized
InitTotal(i) ==
    i["init_infected_frac"] + i["init_recovered_frac"] + i["init_hospitalized_frac"]

InitValidate(i) ==
    LET r == CheckFields(InitCheckOrder, i, <<>>)
        c == Append(r.checks, <<"total_disease">>)
    IN  IF ~IsOk(r.out) THEN r
        ELSE IF InitTotal(i) > Scale
             THEN [out |-> Err("CrossFieldInvariantError", <<"total_disease">>), checks |-> c]
             ELSE [out |-> Ok, checks |-> c]

(***************************************************************************)
(* Construction: dataclass constructors and the reads of the configuration *)
(***************************************************************************)

NoDefaults == [k \in {} |-> 0]

IsNone(x) == DOMAIN x = {}

\* A mutant of the constructor: a missing argument without a default is 0.
DataclassLenient(kwargs, required, defaults) ==
    IF ~(DOMAIN kwargs \subseteq required \cup DOMAIN defaults)
    THEN [err |-> Err("TypeError", <<"unexpected">>), obj |-> None]
    ELSE [err |-> Ok,
          obj |-> [f \in required \cup DOMAIN defaults |->
                     IF f \in DOMAIN kwargs THEN kwargs[f]
                     ELSE IF f \in DOMAIN defaults THEN defaults[f] ELSE 0]]

\* cls(**kwargs) of a dataclass: TypeError on a keyword that is no field and
\* on a field without default that is not given; defaults fill the rest.
Dataclass(kwargs, required, defaults) ==
    IF ~(DOMAIN kwargs \subseteq required \cup DOMAIN defaults)
    THEN [err |-> Err("TypeError", <<"unexpected">>), obj |-> None]
    ELSE IF ~(required \subseteq DOMAIN kwargs)
    THEN [err |-> Err("TypeError", <<"missing">>), obj |-> None]
    ELSE [err |-> Ok,
          obj |-> [f \in required \cup DOMAIN defaults |->
                     IF f \in DOMAIN kwargs THEN kwargs[f] ELSE defaults[f]]]

\* value, low, high, args: Optional[...] = None
DistDefaults == [value |-> None, low |-> None, high |-> None, args |-> None]

\* DistSpec(**cfg.population.<f>)
DistSpecFrom(pop, f) ==
    IF f \notin DOMAIN pop
    THEN [err |-> Err("ConfigAttributeError", <<f>>), obj |-> None]
    ELSE LET r == Dataclass(pop[f], {"name"}, DistDefaults)
         IN  [r EXCEPT !.err.name = IF IsOk(r.err) THEN @ ELSE <<f>> \o @]

\* PopulationParams(frac_stubborn=cfg.population.frac_stubborn, ...): the keys
\* are read by name, in argument order; keys that are not read are not seen.
PopulationFrom(pop) ==
    IF "frac_stubborn" \notin DOMAIN pop
    THEN [err |-> Err("ConfigAttributeError", <<"frac_stubborn">>), obj |-> None]
    ELSE IF "frac_prosocial" \notin DOMAIN pop
    THEN [err |-> Err("ConfigAttributeError", <<"frac_prosocial">>), obj |-> None]
    ELSE LET t == DistSpecFrom(pop, "tau")
             g == DistSpecFrom(pop, "gamma")
             l == DistSpecFrom(pop, "lam")
         IN  IF ~IsOk(t.err) THEN t
             ELSE IF ~IsOk(g.err) THEN g
             ELSE IF ~IsOk(l.err) THEN l
             ELSE [err |-> Ok,
                   obj |-> [frac_stubborn |-> pop["frac_stubborn"],
                            frac_prosocial |-> pop["frac_prosocial"],
                            tau |-> t.obj, gamma |-> g.obj, lam |-> l.obj]]

\* A mutant of the read of a top-level key: an absent group is None.
GroupFromOptional(c, key, required, defaults) ==
    IF key \notin DOMAIN c
    THEN [err |-> Ok, obj |-> None]
    ELSE IF key = "population" THEN PopulationFrom(c[key])
    ELSE Dataclass(c[key], required, defaults)

\* cfg.<key> and the constructor applied to it.
GroupFrom(c, key, required, defaults) ==
    IF key \notin DOMAIN c
    THEN [err |-> Err("ConfigAttributeError", <<>>), obj |-> None]
    ELSE IF key = "population" THEN PopulationFrom(c[key])
    ELSE Dataclass(c[key], required, defaults)

\* The constructor calls of load_default, in evaluation order.
SimParamsFrom(c) ==
    LET d == GroupFrom(c, "disease", DiseaseFields, NoDefaults)
        s == GroupFrom(c, "social", SocialFields, NoDefaults)
        p == GroupFrom(c, "population", PopulationFields, NoDefaults)
        i == GroupFrom(c, "init", InitRequired, InitDefaults)
    IN  IF ~IsOk(d.err) THEN [err |-> [d.err EXCEPT !.name = <<"disease">> \o @], obj |-> None]
        ELSE IF ~IsOk(s.err) THEN [err |-> [s.err EXCEPT !.name = <<"social">> \o @], obj |-> None]
        ELSE IF ~IsOk(p.err) THEN [err |-> [p.err EXCEPT !.name = <<"population">> \o @], obj |-> None]
        ELSE IF ~IsOk(i.err) THEN [err |-> [i.err EXCEPT !.name = <<"init">> \o @], obj |-> None]
        ELSE [err |-> Ok,
              obj |-> [disease |-> d.obj, social |-> s.obj,
                       population |-> p.obj, init |-> i.obj]]

(***************************************************************************)
(* SimParams.validate() and SimParams.load_default() as a state machine    *)
(*                                                                         *)
(* cfg     the configuration OmegaConf.load returned (a mapping whose      *)
(*         domain is the set of top-level keys present)                    *)
(* params  the SimParams object (None before construction)                 *)
(* pc      the position of the call                                        *)
(* outcome per leaf group, what its validate() did ("notrun" before)       *)
(* result  what reached the caller: the status of the call, the error      *)
(*         raised, the value returned                                      *)
(* trace   the checks evaluated so far (check_prob calls and cross-field   *)
(*         comparisons), in order                                          *)
(***************************************************************************)

Groups == {"disease", "social", "population", "init"}

\* A mutant of the order of the calls: social before disease.
GroupOrderSwapped == <<"social", "disease", "population", "init">>

\* The order of the calls in SimParams.validate().
GroupOrder == <<"disease", "social", "population", "init">>

NotRun == [kind |-> "notrun", name |-> <<>>]

NoResult == [status |-> "none", err |-> Ok, value |-> None]

Raised(e) == [status |-> "raised", err |-> e, value |-> None]

Returned(v) == [status |-> "returned", err |-> Ok, value |-> v]

\* self.<g>.validate(); on None the attribute lookup raises.
GroupValidate(g, obj) ==
    IF IsNone(obj)
    THEN [out |-> Err("AttributeError", <<g>>), checks |-> <<>>]
    ELSE CASE g = "disease" -> DiseaseValidate(obj)
           [] g = "social" -> SocialValidate(obj)
           [] g = "population" -> PopulationValidate(obj)
           [] g = "init" -> InitValidate(obj)

\* The position before the k-th call of SimParams.validate().
PcOf(k) ==
    IF k > Len(GroupOrder) THEN "validated" ELSE "v_" \o GroupOrder[k]

\* A mutant of load_default: validate() is given an empty list of calls.
AfterConstructNoValidate == "validated"

\* params.validate() is the statement after the construction.
AfterConstruct == PcOf(1)

\* The k-th call of SimParams.validate(): it returns, and the next call is
\* due, or it raises, and the error leaves validate() (and load_default).
ValidateStep(k) ==
    LET g == GroupOrder[k]
        r == GroupValidate(g, params[g])
    IN  /\ pc = PcOf(k)
        /\ outcome' = [outcome EXCEPT ![g] = r.out]
        /\ trace' = trace \o r.checks
        /\ IF IsOk(r.out)
           THEN pc' = PcOf(k + 1) /\ result' = result
           ELSE pc' = "raised" /\ result' = Raised(r.out)
        /\ UNCHANGED <<cfg, params>>

ValidateDisease == ValidateStep(1)

ValidateSocial == ValidateStep(2)

ValidatePopulation == ValidateStep(3)

ValidateInit == ValidateStep(4)

\* load_default up to params.validate(): the constructor calls.
Construct ==
    /\ pc = "start"
    /\ LET r == SimParamsFrom(cfg)
       IN  IF IsOk(r.err)
           THEN params' = r.obj /\ pc' = AfterConstruct /\ result' = result
           ELSE params' = params /\ pc' = "raised" /\ result' = Raised(r.err)
    /\ UNCHANGED <<cfg, outcome, trace>>

\* return params
Return ==
    /\ pc = "validated"
    /\ pc' = "returned"
    /\ result' = Returned(Some(params))
    /\ UNCHANGED <<cfg, params, outcome, trace>>

\* A direct call of DistSpec.validate(field_name=...) on params.spec.
ValidateDist ==
    /\ pc = "v_dist"
    /\ LET r == DistValidate(params.spec, params.field_name)
       IN  /\ trace' = trace \o r.checks
           /\ IF IsOk(r.out)
              THEN pc' = "validated" /\ result' = Returned(None)
              ELSE pc' = "raised" /\ result' = Raised(r.out)
    /\ UNCHANGED <<cfg, params, outcome>>

(***************************************************************************)
(* Inputs                                                                  *)
(***************************************************************************)

With(m, k, v) == [x \in DOMAIN m \cup {k} |-> IF x = k THEN v ELSE m[x]]

Without(m, k) == [x \in DOMAIN m \ {k} |-> m[x]]

OptVals == {None} \cup {Some(v) : v \in Vals}

\* Distribution names as the configuration may spell them (None: a null).
DistNames ==
    { Some(<<"c", "o", "n", "s", "t">>),
      Some(<<" ", "C", "o", "n", "s", "t", "\t">>),
      Some(<<"c", "o", "n", " ", "s", "t">>),
      Some(<<"u", "n", "i", "f", "o", "r", "m">>),
      Some(<<"U", "N", "I", "F", "O", "R", "M", " ">>),
      Some(<<"g", "a", "u", "s", "s", "i", "a", "n">>),
      Some(<<>>),
      None }

\* Every DistSpec object over the names and values above.
DistSpecs ==
    [name : DistNames, value : OptVals, low : OptVals, high : OptVals, args : {None}]

DistConst(v) ==
    [name |-> Some(StrConst), value |-> v, low |-> None, high |-> None, args |-> None]

DistUniform(nm, l, h) ==
    [name |-> Some(nm), value |-> None, low |-> l, high |-> h, args |-> None]

\* A few DistSpec objects, one or two of each outcome of validate().
DistSamples ==
    { DistConst(Some(0)), DistConst(Some(Scale + 1)), DistConst(None),
      DistUniform(StrUniform, Some(0), Some(Scale)),
      DistUniform(<<"U", "n", "i", "f", "o", "r", "m", " ">>, Some(Scale), Some(Scale)),
      DistUniform(StrUniform, Some(Scale), Some(0)),
      DistUniform(StrUniform, Some(0 - 1), None),
      DistUniform(StrUniform, Some(0), Some(Scale + 1)),
      DistUniform(<<"g", "a", "u", "s", "s", "i", "a", "n">>, Some(0), Some(Scale)) }

BaseDisease ==
    [alpha |-> Scale, beta |-> 0, p_SI |-> Scale, p_IH |-> 0, p_IR |-> Scale,
     p_HR |-> Scale, p_RS |-> 0]

BaseSocial == [p_s |-> Scale]

BasePopulation ==
    [frac_stubborn |-> 0, frac_prosocial |-> Scale, tau |-> DistConst(Some(Scale)),
     gamma |-> DistUniform(StrUniform, Some(0), Some(0)),
     lam |-> DistUniform(StrUniform, Some(0), Some(Scale))]

BaseInit ==
    [init_infected_frac |-> 0, init_adopted_frac |-> Scale,
     init_recovered_frac |-> Scale, init_hospitalized_frac |-> 0]

BaseParams ==
    [disease |-> BaseDisease, social |-> BaseSocial, population |-> BasePopulation,
     init |-> BaseInit]

\* SimParams objects as a test builds them: one group ranges over all its
\* values, the others are the base ones; population and init may be None.
DiseaseBundles ==
    { [BaseParams EXCEPT !.disease = d] : d \in [DiseaseFields -> Vals] }

SocialBundles ==
    { [BaseParams EXCEPT !.social = s] : s \in [SocialFields -> Vals] }

PopulationBundles ==
    { [BaseParams EXCEPT !.population =
         [frac_stubborn |-> a, frac_prosocial |-> b, tau |-> t, gamma |-> g, lam |-> l]] :
      a \in Vals, b \in Vals, t \in DistSamples, g \in DistSamples, l \in DistSamples }

InitBundles ==
    { [BaseParams EXCEPT !.init = i] :
      i \in [InitRequired \cup DOMAIN InitDefaults -> Vals] }

PartialBundles ==
    { [BaseParams EXCEPT !.population = p, !.init = i] :
      p \in {None, BasePopulation}, i \in {None, BaseInit} }

\* A top-level key that the configuration does not have.
Absent == [absent |-> TRUE]

DiseaseCfgs ==
    { With(With(BaseDisease, "p_IH", h), "p_IR", r) : h \in Vals, r \in {0, Scale} }
    \cup { With(BaseDisease, "alpha", a) : a \in {0 - 1, Scale + 1} }
    \cup { Without(BaseDisease, "p_RS"), With(BaseDisease, "extra", 0) }

SocialCfgs ==
    { [p_s |-> v] : v \in Vals }
    \cup { NoDefaults, [p_stubborn |-> 0], With(BaseSocial, "extra", 0) }

\* Distribution mappings as a configuration file may hold them.
DistCfgs ==
    { [name |-> Some(StrConst), value |-> Some(0)],
      [name |-> Some(StrConst), value |-> Some(Scale + 1)],
      [name |-> Some(StrConst)],
      [name |-> Some(StrConst), value |-> Some(Scale), low |-> Some(Scale + 1)],
      [name |-> Some(StrUniform), low |-> Some(Scale), high |-> Some(Scale)],
      [name |-> Some(StrUniform), low |-> Some(Scale), high |-> Some(0)],
      [name |-> Some(StrUniform), low |-> Some(0)],
      [name |-> Some(<<"g", "a", "u", "s", "s", "i", "a", "n">>), value |-> Some(0)],
      [value |-> Some(0)],
      [name |-> Some(StrConst), value |-> Some(0), mean |-> Some(0)] }

BasePopulationCfg ==
    [frac_stubborn |-> 0, frac_prosocial |-> Scale,
     tau |-> [name |-> Some(StrConst), value |-> Some(Scale)],
     gamma |-> [name |-> Some(StrUniform), low |-> Some(0), high |-> Some(0)],
     lam |-> [name |-> Some(<<"U", "n", "i", "f", "o", "r", "m", " ">>),
              low |-> Some(0), high |-> Some(Scale)]]

PopulationCfgs ==
    { With(BasePopulationCfg, "frac_stubborn", v) : v \in Vals }
    \cup { With(BasePopulationCfg, "tau", t) : t \in DistCfgs }
    \cup { Without(BasePopulationCfg, "frac_prosocial"), Without(BasePopulationCfg, "lam"),
           With(BasePopulationCfg, "extra", 0) }

InitCfgs ==
    { With(With(BaseInit, "init_infected_frac", i), "init_recovered_frac", r) :
        i \in Vals, r \in {0, Scale} }
    \cup { [init_infected_frac |-> i, init_adopted_frac |-> Scale] : i \in Vals }
    \cup { Without(BaseInit, "init_hospitalized_frac"),
           Without(BaseInit, "init_infected_frac"), With(BaseInit, "extra", 0) }

\* What OmegaConf.load may return: every group is absent or one of the above.
Configs ==
    { [k \in {g \in Groups : "absent" \notin DOMAIN full[g]} |-> full[k]] :
        full \in [disease : DiseaseCfgs \cup {Absent}, social : SocialCfgs \cup {Absent},
                  population : PopulationCfgs \cup {Absent}, init : InitCfgs \cup {Absent}] }

(***************************************************************************)
(* Specifications                                                          *)
(***************************************************************************)

NoOutcome == [g \in Groups |-> NotRun]

\* SimParams.load_default(path) on any configuration.
Init ==
    /\ cfg \in Configs
    /\ params = None
    /\ pc = "start"
    /\ outcome = NoOutcome
    /\ result = NoResult
    /\ trace = <<>>

Next ==
    \/ Construct
    \/ ValidateDisease
    \/ ValidateSocial
    \/ ValidatePopulation
    \/ ValidateInit
    \/ Return

Spec == Init /\ [][Next]_vars

\* SimParams.validate() on a bundle built directly.
InitBundle ==
    /\ cfg = None
    /\ \/ params \in DiseaseBundles
       \/ params \in SocialBundles
       \/ params \in PopulationBundles
       \/ params \in InitBundles
       \/ params \in PartialBundles
    /\ pc = AfterConstruct
    /\ outcome = NoOutcome
    /\ result = NoResult
    /\ trace = <<>>

NextValidate ==
    \/ ValidateDisease
    \/ ValidateSocial
    \/ ValidatePopulation
    \/ ValidateInit

SpecValidate == InitBundle /\ [][NextValidate]_vars

\* DistSpec.validate(field_name=...) on a distribution built directly.
InitDist ==
    /\ cfg = None
    /\ params \in [spec : DistSpecs, field_name : {"tau", "gamma", "lam"}]
    /\ pc = "v_dist"
    /\ outcome = NoOutcome
    /\ result = NoResult
    /\ trace = <<>>

NextDist == ValidateDist

SpecDist == InitDist /\ [][NextDist]_vars

(***************************************************************************)
(* The properties: what the specification says of a valid object, written  *)
(* without the validators above.                                           *)
(***************************************************************************)

InUnit(v) == v \in 0..Scale

AllInUnit(obj, fields) == \A f \in fields : InUnit(obj[f])

\* The least index of seq whose field of obj is outside [0,1] (0: none).
FirstBad(seq, obj) ==
    LET bad == {i \in 1..Len(seq) : ~InUnit(obj[seq[i]])}
    IN  IF bad = {} THEN 0 ELSE CHOOSE i \in bad : \A j \in bad : i <= j

SameLetter(c, t) ==
    \/ c = t
    \/ <<c, t>> \in { <<"C", "c">>, <<"O", "o">>, <<"N", "n">>, <<"S", "s">>, <<"T", "t">>,
                      <<"U", "u">>, <<"I", "i">>, <<"F", "f">>, <<"R", "r">>, <<"M", "m">> }

\* nm is tag up to case, between any leading and trailing white space.
TagIs(nm, tag) ==
    \E a \in 0..Len(nm) :
        /\ a + Len(tag) <= Len(nm)
        /\ \A k \in 1..a : nm[k] \in {" ", "\t", "\n"}
        /\ \A k \in 1..Len(tag) : SameLetter(nm[a + k], tag[k])
        /\ \A k \in (a + Len(tag) + 1)..Len(nm) : nm[k] \in {" ", "\t", "\n"}

Present(o) == o # <<>>

\* The reference of the specification for DistributionSpec.validate.
RefDist(d) ==
    LET nm == IF Present(d["name"]) THEN d["name"][1] ELSE <<>>
    IN  CASE TagIs(nm, <<"c", "o", "n", "s", "t">>) ->
               IF ~Present(d["value"]) THEN "MissingFieldError"
               ELSE IF ~InUnit(d["value"][1]) THEN "RangeError"
               ELSE "ok"
          [] TagIs(nm, <<"u", "n", "i", "f", "o", "r", "m">>) ->
               IF ~Present(d["low"]) \/ ~Present(d["high"]) THEN "MissingFieldError"
               ELSE IF ~InUnit(d["low"][1]) \/ ~InUnit(d["high"][1]) THEN "RangeError"
               ELSE IF d["low"][1] > d["high"][1] THEN "OrderingError"
               ELSE "ok"
          [] OTHER -> "UnsupportedVariantError"

DiseaseOk(d) ==
    /\ AllInUnit(d, {"alpha", "beta", "p_SI", "p_IH", "p_IR", "p_HR", "p_RS"})
    /\ d["p_IH"] + d["p_IR"] <= Scale

SocialOk(s) == InUnit(s["p_s"])

PopulationOk(p) ==
    /\ AllInUnit(p, {"frac_stubborn", "frac_prosocial"})
    /\ \A f \in {"tau", "gamma", "lam"} : RefDist(p[f]) = "ok"

InitOk(i) ==
    /\ AllInUnit(i, {"init_infected_frac", "init_adopted_frac", "init_recovered_frac",
                     "init_hospitalized_frac"})
    /\ i["init_infected_frac"] + i["init_recovered_frac"] + i["init_hospitalized_frac"]
          <= Scale

GroupOk(g, obj) ==
    CASE g = "disease" -> DiseaseOk(obj)
      [] g = "social" -> SocialOk(obj)
      [] g = "population" -> Present(obj) /\ PopulationOk(obj)
      [] g = "init" -> Present(obj) /\ InitOk(obj)

BundleOk(b) == \A g \in {"disease", "social", "population", "init"} : GroupOk(g, b[g])

\* C1: load_default returns a bundle only after validate() has succeeded on
\* it: whenever a bundle reaches the caller, every group's validate() has run
\* and passed and the bundle satisfies every group invariant; a call that
\* raised hands no bundle to the caller.
C1_ReturnsOnlyValidated ==
    /\ Present(result.value) =>
          /\ result.status = "returned"
          /\ \A g \in Groups : outcome[g] = Ok
          /\ BundleOk(result.value[1])
    /\ pc = "returned" => Present(result.value) /\ result.value[1] = params
    /\ pc = "raised" => result.status = "raised" /\ ~Present(result.value)

\* A configuration that omits the two optional init fractions was loaded and
\* the bundle returned.
C1_Witness ==
    /\ pc = "returned"
    /\ DOMAIN cfg["init"] = {"init_infected_frac", "init_adopted_frac"}
    /\ Present(result.value)

\* C2: for every group and every probability field f of it, the other fields
\* of the group being valid: validate() fails with a RangeError naming f if
\* and only if f is outside [0,1]; with every field in [0,1], the ends 0 and
\* 1 included, and the group's sum within 1, validate() passes.
C2_RangeErrorIffOutside ==
    \A g \in Groups :
        outcome[g] # NotRun /\ Present(params[g]) =>
            LET obj == params[g]
                fields == CASE g = "disease" -> {"alpha", "beta", "p_SI", "p_IH", "p_IR",
                                                  "p_HR", "p_RS"}
                            [] g = "social" -> {"p_s"}
                            [] g = "population" -> {"frac_stubborn", "frac_prosocial"}
                            [] g = "init" -> {"init_infected_frac", "init_adopted_frac",
                                              "init_recovered_frac",
                                              "init_hospitalized_frac"}
                distsOk == g = "population" =>
                              \A t \in {"tau", "gamma", "lam"} : RefDist(obj[t]) = "ok"
            IN  /\ \A f \in fields :
                      AllInUnit(obj, fields \ {f}) /\ distsOk =>
                          (outcome[g] = [kind |-> "RangeError", name |-> <<f>>]
                              <=> ~InUnit(obj[f]))
                /\ GroupOk(g, obj) => outcome[g] = Ok

\* The population group failed on frac_prosocial alone.
C2_Witness ==
    /\ outcome["population"] = [kind |-> "RangeError", name |-> <<"frac_prosocial">>]
    /\ params["population"]["frac_prosocial"] = Scale + 1
    /\ InUnit(params["population"]["frac_stubborn"])

\* C3: with all seven fields in [0,1], DiseaseParams.validate() fails with the
\* cross-field error if and only if p_IH + p_IR > 1, and fails in no other
\* way; at p_IH + p_IR = 1 it passes.
C3_DiseaseSum ==
    outcome["disease"] # NotRun
      /\ AllInUnit(params["disease"], {"alpha", "beta", "p_SI", "p_IH", "p_IR", "p_HR", "p_RS"})
    => LET sum == params["disease"]["p_IH"] + params["disease"]["p_IR"]
       IN  /\ outcome["disease"].kind = "CrossFieldInvariantError" <=> sum > Scale
           /\ outcome["disease"].kind \in {"ok", "CrossFieldInvariantError"}
           /\ sum = Scale => outcome["disease"] = Ok

\* p_IH and p_IR are both positive, sum to exactly 1, and validate() passed.
C3_Witness ==
    /\ outcome["disease"] = Ok
    /\ params["disease"]["p_IH"] > 0
    /\ params["disease"]["p_IR"] > 0
    /\ params["disease"]["p_IH"] + params["disease"]["p_IR"] = Scale

\* C4: with all four fractions in [0,1], InitStateParams.validate() fails if
\* and only if infected + recovered + hospitalized > 1; the adopted fraction
\* has no part in it: the outcome is the one validate() gives with any other
\* adopted fraction of [0,1] in its place.
C4_InitSum ==
    outcome["init"] # NotRun /\ Present(params["init"])
      /\ AllInUnit(params["init"], {"init_infected_frac", "init_adopted_frac",
                                    "init_recovered_frac", "init_hospitalized_frac"})
    => LET i == params["init"]
           sum == i["init_infected_frac"] + i["init_recovered_frac"]
                     + i["init_hospitalized_frac"]
       IN  /\ ~IsOk(outcome["init"]) <=> sum > Scale
           /\ ~IsOk(outcome["init"]) => outcome["init"].kind = "CrossFieldInvariantError"
           /\ \A a \in 0..Scale :
                 InitValidate([i EXCEPT !["init_adopted_frac"] = a]).out = outcome["init"]

\* adopted = 1 with the other three fractions at 0 was validated and passed.
C4_Witness ==
    /\ outcome["init"] = Ok
    /\ params["init"]["init_adopted_frac"] = Scale
    /\ params["init"]["init_infected_frac"] = 0
    /\ params["init"]["init_recovered_frac"] = 0
    /\ params["init"]["init_hospitalized_frac"] = 0

\* C5: DistSpec.validate gives, for every tag, value, low and high, the
\* outcome of the reference RefDist: success or the kind of the error.
C5_DistMatchesReference ==
    pc \in {"validated", "raised"} =>
        /\ result.err.kind = RefDist(params.spec)
        /\ result.status = (IF RefDist(params.spec) = "ok" THEN "returned" ELSE "raised")

\* A const spec spelt " Const<TAB>" whose value is 1 passed although its low,
\* a field of the other variant, is out of range.
C5_Witness ==
    /\ pc = "validated"
    /\ params.spec["name"] = Some(<<" ", "C", "o", "n", "s", "t", "\t">>)
    /\ params.spec["value"] = Some(Scale)
    /\ params.spec["low"] = Some(Scale + 1)

\* C6: SimParams.validate() calls the leaf validate() methods in the order
\* disease, social, population, init and stops at the first failure: a group
\* is validated only after every earlier group has passed, after a failure
\* no later group is validated, and the error that reaches the caller is the
\* one the earliest invalid group raised.
C6_GroupOrderFailFast ==
    LET order == <<"disease", "social", "population", "init">>
        invalid == {k \in 1..4 : Present(params) /\ ~GroupOk(order[k], params[order[k]])}
    IN  /\ \A k \in 1..4 :
              /\ outcome[order[k]] # NotRun =>
                    \A j \in 1..(k - 1) : outcome[order[j]] = Ok
              /\ outcome[order[k]].kind \notin {"ok", "notrun"} =>
                    /\ \A j \in (k + 1)..4 : outcome[order[j]] = NotRun
                    /\ result = [status |-> "raised", err |-> outcome[order[k]],
                                 value |-> <<>>]
                    /\ pc = "raised"
        /\ pc \in {"raised", "validated", "returned"} /\ Present(params) =>
              IF invalid = {}
              THEN pc # "raised"
              ELSE LET k == CHOOSE i \in invalid : \A j \in invalid : i <= j
                   IN  /\ pc = "raised"
                       /\ ~IsOk(outcome[order[k]])
                       /\ result.err = outcome[order[k]]

\* Disease and social are both invalid; the call raised the disease error and
\* social was never validated.
C6_Witness ==
    /\ pc = "raised"
    /\ Present(params)
    /\ ~DiseaseOk(params["disease"])
    /\ ~SocialOk(params["social"])
    /\ ~InitOk(params["init"])
    /\ outcome["disease"].kind = "RangeError"
    /\ outcome["social"] = NotRun

\* What the checks of a group must have been, for the amended C7: the fields
\* of seq up to the first one outside [0,1], or all of them and then the sum.
ExpectedChecks(seq, obj, sum) ==
    LET b == FirstBad(seq, obj)
    IN  IF b = 0
        THEN [i \in 1..(Len(seq) + 1) |-> IF i <= Len(seq) THEN <<seq[i]>> ELSE <<sum>>]
        ELSE [i \in 1..b |-> <<seq[i]>>]

\* The statement of C7 with the order of the fields as a parameter.
FieldOrderHolds(diseaseOrder) ==
    LET initOrder == <<"init_infected_frac", "init_adopted_frac", "init_recovered_frac",
                       "init_hospitalized_frac">>
        popOrder == <<"frac_stubborn", "frac_prosocial">>
        d == params["disease"]
        p == params["population"]
        i == params["init"]
        db == FirstBad(diseaseOrder, d)
        pb == FirstBad(popOrder, p)
        ib == FirstBad(initOrder, i)
        ie == ExpectedChecks(initOrder, i, "total_disease")
    IN  /\ outcome["disease"] # NotRun =>
              /\ db # 0 => outcome["disease"] =
                              [kind |-> "RangeError", name |-> <<diseaseOrder[db]>>]
              /\ db = 0 => outcome["disease"].kind # "RangeError"
              /\ LET e == ExpectedChecks(diseaseOrder, d, "p_IH+p_IR")
                 IN  Len(trace) >= Len(e) /\ SubSeq(trace, 1, Len(e)) = e
        /\ outcome["population"] # NotRun /\ Present(p) =>
              /\ pb # 0 =>
                    /\ outcome["population"] =
                          [kind |-> "RangeError", name |-> <<popOrder[pb]>>]
                    /\ \A k \in 1..Len(trace) : Len(trace[k]) = 1
              /\ pb = 0 /\ ~IsOk(outcome["population"]) =>
                    LET bad == {k \in 1..3 : RefDist(p[<<"tau", "gamma", "lam">>[k]]) # "ok"}
                        k == CHOOSE x \in bad : \A y \in bad : x <= y
                    IN  /\ bad # {}
                        /\ outcome["population"].kind = RefDist(p[<<"tau", "gamma", "lam">>[k]])
                        /\ outcome["population"].name[1] = <<"tau", "gamma", "lam">>[k]
        /\ outcome["init"] # NotRun /\ Present(i) =>
              /\ ib # 0 => outcome["init"] =
                              [kind |-> "RangeError", name |-> <<initOrder[ib]>>]
              /\ ib = 0 => outcome["init"].kind # "RangeError"
              /\ Len(trace) >= Len(ie)
              /\ SubSeq(trace, Len(trace) - Len(ie) + 1, Len(trace)) = ie

\* C7, as amended: within each leaf group validate() checks the probability
\* fields in a fixed order and only then the cross-field sum, stopping at the
\* first violation; the order is the declared one for population and init,
\* and for DiseaseParams it is p_SI, p_IH, p_IR, p_HR, p_RS, alpha, beta.
C7_CheckOrder ==
    FieldOrderHolds(<<"p_SI", "p_IH", "p_IR", "p_HR", "p_RS", "alpha", "beta">>)

\* C7 as stated: DiseaseParams is checked in declared order, alpha first.
C7_DeclaredOrder ==
    FieldOrderHolds(<<"alpha", "beta", "p_SI", "p_IH", "p_IR", "p_HR", "p_RS">>)

\* alpha and p_SI are both out of range and the error names p_SI; the sum
\* p_IH + p_IR, although above 1, was not looked at.
C7_Witness ==
    /\ ~InUnit(params["disease"]["alpha"])
    /\ ~InUnit(params["disease"]["p_SI"])
    /\ params["disease"]["p_IH"] + params["disease"]["p_IR"] > Scale
    /\ outcome["disease"] = [kind |-> "RangeError", name |-> <<"p_SI">>]
    /\ trace = << <<"p_SI">> >>

\* The target schema, for C8 to C10.
SchemaFields(g) ==
    CASE g = "disease" -> {"alpha", "beta", "p_SI", "p_IH", "p_IR", "p_HR", "p_RS"}
      [] g = "social" -> {"p_s"}
      [] g = "population" -> {"frac_stubborn", "frac_prosocial", "tau", "gamma", "lam"}
      [] g = "init" -> {"init_infected_frac", "init_adopted_frac", "init_recovered_frac",
                        "init_hospitalized_frac"}

\* A distribution mapping with a key that is no field, or without a name.
DistShapeWrong(m) ==
    \/ ~(DOMAIN m \subseteq {"name", "value", "low", "high", "args"})
    \/ "name" \notin DOMAIN m

\* A distribution mapping without a field of the variant its name selects.
DistVariantFieldMissing(m) ==
    /\ ~DistShapeWrong(m)
    /\ LET nm == IF Present(m["name"]) THEN m["name"][1] ELSE <<>>
       IN  \/ TagIs(nm, <<"c", "o", "n", "s", "t">>) /\ "value" \notin DOMAIN m
           \/ /\ TagIs(nm, <<"u", "n", "i", "f", "o", "r", "m">>)
              /\ ~({"low", "high"} \subseteq DOMAIN m)

DistKeys(c) ==
    IF "population" \in DOMAIN c
    THEN {"tau", "gamma", "lam"} \cap DOMAIN c["population"]
    ELSE {}

\* Some group of the source has a field the schema lacks or lacks a field the
\* schema declares.
SchemaMismatch(c) ==
    \/ \E g \in DOMAIN c : DOMAIN c[g] # SchemaFields(g)
    \/ \E t \in DistKeys(c) :
          DistShapeWrong(c["population"][t]) \/ DistVariantFieldMissing(c["population"][t])

\* The mismatches no constructor call of load_default gets past.
ConstructMismatch(c) ==
    \/ \E g \in DOMAIN c \cap {"disease", "social"} : DOMAIN c[g] # SchemaFields(g)
    \/ /\ "init" \in DOMAIN c
       /\ \/ ~(DOMAIN c["init"] \subseteq SchemaFields("init"))
          \/ ~({"init_infected_frac", "init_adopted_frac"} \subseteq DOMAIN c["init"])
    \/ /\ "population" \in DOMAIN c
       /\ ~(SchemaFields("population") \subseteq DOMAIN c["population"])
    \/ \E t \in DistKeys(c) : DistShapeWrong(c["population"][t])

\* C8 as stated: every configuration with a schema mismatch is rejected.
C8_EveryMismatchRejected == SchemaMismatch(cfg) => pc # "returned"

\* C8, as amended: load_default rejects every configuration in which the
\* disease, social or init group or a distribution mapping has a field the
\* schema lacks, or in which a group lacks a field the schema declares without
\* a default (a distribution: its name, or a field of its selected variant);
\* the former fail in the constructors, before any check.  Extra fields of the
\* population group are not looked at and a missing init_recovered_frac or
\* init_hospitalized_frac is replaced by its default 0: such a configuration,
\* all four groups present, gets past the constructors.
C8_StrictMismatchRejected ==
    /\ ConstructMismatch(cfg) /\ pc # "start" =>
          /\ pc = "raised"
          /\ result.err.kind \in {"TypeError", "ConfigAttributeError"}
          /\ ~Present(params)
          /\ trace = <<>>
    /\ (\E t \in DistKeys(cfg) : DistVariantFieldMissing(cfg["population"][t])) =>
          pc \notin {"validated", "returned"}
    /\ ~ConstructMismatch(cfg) /\ DOMAIN cfg = Groups /\ pc # "start" => Present(params)
    /\ pc = "returned" =>
          \A f \in {"init_recovered_frac", "init_hospitalized_frac"} :
              result.value[1]["init"][f] =
                  (IF f \in DOMAIN cfg["init"] THEN cfg["init"][f] ELSE 0)

\* The init group alone is at fault, by a field the schema lacks, every value
\* being valid; the constructor raised TypeError.
C8_Witness ==
    /\ pc = "raised"
    /\ DOMAIN cfg = Groups
    /\ "extra" \in DOMAIN cfg["init"]
    /\ result.err = [kind |-> "TypeError", name |-> <<"init", "unexpected">>]

C10_StructureFirst ==
    ~(Groups \subseteq DOMAIN cfg) =>
        /\ trace = <<>>
        /\ pc \in {"start", "raised"}
        /\ pc = "raised" =>
              /\ result.status = "raised"
              /\ result.err.kind \in {"TypeError", "ConfigAttributeError"}
              /\ "disease" \notin DOMAIN cfg =>
                    result.err = [kind |-> "ConfigAttributeError", name |-> <<"disease">>]

\* The disease key is missing, the social group holds an out-of-range p_s,
\* and the call raised without a single check.
C10_Witness ==
    /\ "disease" \notin DOMAIN cfg
    /\ "social" \in DOMAIN cfg
    /\ "p_s" \in DOMAIN cfg["social"]
    /\ ~InUnit(cfg["social"]["p_s"])
    /\ pc = "raised"
    /\ trace = <<>>

====
